---- MODULE Spec2Model ----
(***************************************************************************)
(* The selector matching virtual machine of lol-html                       *)
(* (src/selectors_vm/mod.rs): execution of a compiled selector program     *)
(* over the stack of open elements, with the two-phase protocol "try       *)
(* without attributes, then request the attributes and resume".            *)
(*                                                                         *)
(* The VM core (ExecutionCtx, SelectorMatchingVm) is translated from       *)
(* mod.rs.  The collaborators that live in sibling modules (stack.rs,      *)
(* program.rs, the compiler) are modelled from their documented contract.  *)
(***************************************************************************)
EXTENDS Integers, Sequences, FiniteSets, TLC

\* ------------------------------------------------------------------ bounds

\* Deepest stack of open elements the driver builds.
MaxDepth == 3

\* Most invocations of one request the caller attempts.
MaxInvocations == 2

\* ------------------------------------------------------------ input domains

LocalNames == {"a", "b", "br"}

\* The HTML void tags among LocalNames (stack.rs, void element table).
VoidNames == {"br"}

Namespaces == {"Html", "Svg"}

\* The attribute names a start tag may carry.
AttrNames == {"x"}

\* Option<T>: None is the empty sequence, Some(v) the one-element sequence.
None == <<>>

Some(v) == <<v>>

\* AddressRange: the half-open interval [start, end) of instruction addresses.
Range(s, e) == [start |-> s, end |-> e]

\* ExecutionBranch { matched_payload, jumps, hereditary_jumps }
Branch(payloads, jumps, hereditary_jumps) ==
    [matched_payload |-> payloads, jumps |-> jumps,
     hereditary_jumps |-> hereditary_jumps]

\* One compiled selector node: a local-name test ("*" accepts every name), an
\* optional attribute test ("none" when the node has no attribute predicate)
\* and the branch taken on a match.
Instr(local_name, attr, branch) ==
    [local_name |-> local_name, attr |-> attr, branch |-> branch]

\* ---------------------------------------------------------------- programs
\* Compiled programs, as the compiler lays them out: the entry points first,
\* then the jump tables the branches refer to.  Addresses count from 0.

\* a[x] -> 2,  a[x] > b -> 3,  a -> 1,  a b -> 3,  a b[x] -> 6,  br[x] -> 8
Program1 ==
    [entry_points |-> Range(0, 3),
     instructions |-> <<
        Instr("a", "x", Branch(<<2>>, Some(Range(3, 4)), None)),
        Instr("a", "none", Branch(<<1>>, None, Some(Range(4, 6)))),
        Instr("br", "x", Branch(<<8>>, None, None)),
        Instr("b", "none", Branch(<<3>>, None, None)),
        Instr("b", "none", Branch(<<3>>, None, None)),
        Instr("b", "x", Branch(<<6>>, None, None)) >>]

\* a -> 1,  a > b -> 3,  a > b[x] -> 5,  a b[x] -> 6,  a b -> 3,  a b > a -> 7,
\* * > a[x] -> 9,  * b -> 4 and 3,  br -> 8
Program2 ==
    [entry_points |-> Range(0, 3),
     instructions |-> <<
        Instr("a", "none", Branch(<<1>>, Some(Range(3, 5)), Some(Range(5, 7)))),
        Instr("*", "none", Branch(<<>>, Some(Range(7, 8)), Some(Range(8, 9)))),
        Instr("br", "none", Branch(<<8>>, None, None)),
        Instr("b", "none", Branch(<<3>>, None, None)),
        Instr("b", "x", Branch(<<5>>, None, None)),
        Instr("b", "x", Branch(<<6>>, None, None)),
        Instr("b", "none", Branch(<<3>>, Some(Range(9, 10)), None)),
        Instr("a", "x", Branch(<<9>>, None, None)),
        Instr("b", "none", Branch(<<4, 3>>, None, None)),
        Instr("a", "none", Branch(<<7>>, None, None)) >>]

\* a[x] -> 6,  a b -> 7
Program3 ==
    [entry_points |-> Range(0, 1),
     instructions |-> <<
        Instr("a", "x", Branch(<<6>>, None, Some(Range(1, 2)))),
        Instr("b", "none", Branch(<<7>>, None, None)) >>]

Programs == {Program1, Program2, Program3}

\* program.instructions[addr], addresses counting from 0.
InstrAt(prog, addr) == prog.instructions[addr + 1]

\* ------------------------------------------------------------ instructions

\* Instruction::try_exec_without_attrs: "OkNone" (definite non-match),
\* "OkSome" (definite match), "Err" (undecidable without attributes).
try_exec_without_attrs(instr, local_name) ==
    IF instr.local_name # "*" /\ instr.local_name # local_name THEN "OkNone"
    ELSE IF instr.attr = "none" THEN "OkSome"
    ELSE "Err"

\* Instruction::exec: TRUE when the branch is taken (always decidable).
exec(instr, local_name, attrs) ==
    /\ instr.local_name = "*" \/ instr.local_name = local_name
    /\ instr.attr = "none" \/ instr.attr \in attrs

\* Instruction::complete_execution_with_attrs: finishes the instruction that
\* bailed out, whose local-name test already passed.
complete_execution_with_attrs(instr, attrs) ==
    instr.attr = "none" \/ instr.attr \in attrs

\* -------------------------------------------------------------- stack items

\* StackItem::new(local_name)
NewStackItem(local_name) ==
    [local_name |-> local_name, matched_payload |-> {}, jumps |-> <<>>,
     hereditary_jumps |-> <<>>, has_ancestor_with_hereditary_jumps |-> FALSE]

\* Stack::get_stack_directive
get_stack_directive(item, ns) ==
    IF ns = "Html"
    THEN IF item.local_name \in VoidNames THEN "PopImmediately" ELSE "Push"
    ELSE "PushIfNotSelfClosing"

\* push_item that looks only at the descendant jumps of the previous top and
\* not at its flag.
push_item_top_only(stk, item) ==
    IF stk # <<>> /\ stk[Len(stk)].hereditary_jumps # <<>>
    THEN Append(stk, [item EXCEPT !.has_ancestor_with_hereditary_jumps = TRUE])
    ELSE Append(stk, item)

\* Stack::push_item: the flag is computed from the previous top.
push_item(stk, item) ==
    IF stk # <<>> /\ (stk[Len(stk)].has_ancestor_with_hereditary_jumps
                      \/ stk[Len(stk)].hereditary_jumps # <<>>)
    THEN Append(stk, [item EXCEPT !.has_ancestor_with_hereditary_jumps = TRUE])
    ELSE Append(stk, item)

\* ------------------------------------------------------- execution context
\* The context of one start tag together with the calls it has made to the
\* match handler so far: ctx is the ExecutionCtx, out the MatchInfo values
\* handed to match_handler, in call order.  Three further fields observe
\* the run: trace lists the instructions evaluated, in order, `at` is the
\* instruction set the VM is working on, and stopped is the ancestor
\* (counted from the top of the stack) at which the descendant-jump walk
\* stopped because that ancestor's flag is false.

\* ExecutionCtx::new
NewCtx(local_name, ns) ==
    [stack_item |-> NewStackItem(local_name), with_content |-> TRUE, ns |-> ns]

MatchInfo(payload, with_content) ==
    [payload |-> payload, with_content |-> with_content]

\* The loop without the `contains` test: every payload is reported.
RECURSIVE AddPayloads_no_contains(_, _, _)
AddPayloads_no_contains(e, payloads, i) ==
    IF i > Len(payloads) THEN e
    ELSE AddPayloads_no_contains(
            [e EXCEPT !.out = Append(@, MatchInfo(payloads[i], e.ctx.with_content)),
                      !.ctx.stack_item.matched_payload = @ \cup {payloads[i]}],
            payloads, i + 1)

\* The loop without the `insert`: the item does not record what it reported.
RECURSIVE AddPayloads_no_insert(_, _, _)
AddPayloads_no_insert(e, payloads, i) ==
    IF i > Len(payloads) THEN e
    ELSE IF payloads[i] \in e.ctx.stack_item.matched_payload
    THEN AddPayloads_no_insert(e, payloads, i + 1)
    ELSE AddPayloads_no_insert(
            [e EXCEPT !.out = Append(@, MatchInfo(payloads[i], e.ctx.with_content))],
            payloads, i + 1)

\* The loop over branch.matched_payload of add_execution_branch.
RECURSIVE AddPayloads(_, _, _)
AddPayloads(e, payloads, i) ==
    IF i > Len(payloads) THEN e
    ELSE IF payloads[i] \in e.ctx.stack_item.matched_payload
    THEN AddPayloads(e, payloads, i + 1)
    ELSE AddPayloads(
            [e EXCEPT !.out = Append(@, MatchInfo(payloads[i], e.ctx.with_content)),
                      !.ctx.stack_item.matched_payload = @ \cup {payloads[i]}],
            payloads, i + 1)

\* add_execution_branch that records the child jumps of a branch and forgets
\* its descendant jumps.
add_execution_branch_drops_hereditary_jumps(e, branch) ==
    LET e1 == AddPayloads(e, branch.matched_payload, 1)
    IN  IF e1.ctx.with_content
        THEN [e1 EXCEPT !.ctx.stack_item.jumps = @ \o branch.jumps]
        ELSE e1

\* ExecutionCtx::add_execution_branch
add_execution_branch(e, branch) ==
    LET e1 == AddPayloads(e, branch.matched_payload, 1)
    IN  IF e1.ctx.with_content
        THEN [e1 EXCEPT !.ctx.stack_item.jumps = @ \o branch.jumps,
                        !.ctx.stack_item.hereditary_jumps =
                            @ \o branch.hereditary_jumps]
        ELSE e1

\* ------------------------------------------------- observing an execution

\* The instruction set at work: the phase ("entry_points", "jumps",
\* "hereditary_jumps"), for descendant jumps the ancestor counted from the
\* top of the stack, for both kinds of jumps the index of the set in the
\* item's list.
At(phase, stack_offset, instr_set_idx) ==
    [phase |-> phase, stack_offset |-> stack_offset,
     instr_set_idx |-> instr_set_idx]

\* The matching of a start tag as it begins, or as a closure takes it up.
NewExec(ctx) ==
    [ctx |-> ctx, out |-> <<>>, trace |-> <<>>, at |-> At("entry_points", 0, 0),
     stopped |-> None]

\* e1, the execution that evaluating the instruction at addr made of e0, with
\* the evaluation recorded: where it happened, by which call ("try" for
\* try_exec_without_attrs, "exec" for exec, "complete" for
\* complete_execution_with_attrs) and the payloads it reported.
Evaluated(e0, e1, how, addr) ==
    [e1 EXCEPT !.trace = Append(@,
        [phase |-> e0.at.phase, stack_offset |-> e0.at.stack_offset,
         instr_set_idx |-> e0.at.instr_set_idx, addr |-> addr, how |-> how,
         reported |-> [k \in 1..(Len(e1.out) - Len(e0.out)) |->
                          e1.out[Len(e0.out) + k].payload]])]

\* --------------------------------------------------------- instruction sets
\* A Result<(), Bailout<T>> together with the context it leaves behind:
\* err is None for Ok(()) and Some(Bailout { at_addr, restore_point }).

Ok(e) == [e |-> e, err |-> None]

Err(e, at_addr, restore_point) ==
    [e |-> e, err |-> Some([at_addr |-> at_addr, restore_point |-> restore_point])]

\* JumpPtr / HereditaryJumpPtr; the entry-point restore point is the offset.
Ptr(stack_offset, instr_set_idx, offset) ==
    [stack_offset |-> stack_offset, instr_set_idx |-> instr_set_idx,
     offset |-> offset]

DefaultPtr == Ptr(0, 0, 0)

\* The loop with the restore point `addr - start`: the resume loop starts at
\* the instruction that bailed out and executes it again.
RECURSIVE TryInstrLoop_restore_at_bailout(_, _, _, _, _)
TryInstrLoop_restore_at_bailout(prog, start, addr, end, e) ==
    IF addr >= end THEN Ok(e)
    ELSE LET instr == InstrAt(prog, addr)
             result == try_exec_without_attrs(instr, e.ctx.stack_item.local_name)
         IN  IF result = "OkSome"
             THEN TryInstrLoop_restore_at_bailout(prog, start, addr + 1, end,
                    Evaluated(e, add_execution_branch(e, instr.branch),
                              "try", addr))
             ELSE IF result = "Err"
             THEN Err(Evaluated(e, e, "try", addr), addr, Ptr(0, 0, addr - start))
             ELSE TryInstrLoop_restore_at_bailout(prog, start, addr + 1, end,
                    Evaluated(e, e, "try", addr))

\* The for loop of try_exec_instr_set_without_attrs, from address addr on.
RECURSIVE TryInstrLoop(_, _, _, _, _)
TryInstrLoop(prog, start, addr, end, e) ==
    IF addr >= end THEN Ok(e)
    ELSE LET instr == InstrAt(prog, addr)
             result == try_exec_without_attrs(instr, e.ctx.stack_item.local_name)
         IN  IF result = "OkSome"
             THEN TryInstrLoop(prog, start, addr + 1, end,
                    Evaluated(e, add_execution_branch(e, instr.branch),
                              "try", addr))
             ELSE IF result = "Err"
             THEN Err(Evaluated(e, e, "try", addr), addr, Ptr(0, 0, addr - start + 1))
             ELSE TryInstrLoop(prog, start, addr + 1, end,
                    Evaluated(e, e, "try", addr))

\* SelectorMatchingVm::try_exec_instr_set_without_attrs
try_exec_instr_set_without_attrs(prog, addr_range, e) ==
    TryInstrLoop(prog, addr_range.start, addr_range.start, addr_range.end, e)

\* The for loop of exec_instr_set_with_attrs, from address addr on.
RECURSIVE ExecInstrLoop(_, _, _, _, _)
ExecInstrLoop(prog, addr, end, attrs, e) ==
    IF addr >= end THEN e
    ELSE LET instr == InstrAt(prog, addr)
         IN  IF exec(instr, e.ctx.stack_item.local_name, attrs)
             THEN ExecInstrLoop(prog, addr + 1, end, attrs,
                    Evaluated(e, add_execution_branch(e, instr.branch),
                              "exec", addr))
             ELSE ExecInstrLoop(prog, addr + 1, end, attrs,
                    Evaluated(e, e, "exec", addr))

\* exec_instr_set_with_attrs that drops the offset and runs the whole set.
exec_instr_set_with_attrs_from_start(prog, addr_range, attrs, e, offset) ==
    ExecInstrLoop(prog, addr_range.start, addr_range.end, attrs, e)

\* SelectorMatchingVm::exec_instr_set_with_attrs
exec_instr_set_with_attrs(prog, addr_range, attrs, e, offset) ==
    ExecInstrLoop(prog, addr_range.start + offset, addr_range.end, attrs, e)

\* SelectorMatchingVm::complete_instr_execution_with_attrs
complete_instr_execution_with_attrs(prog, addr, attrs, e) ==
    IF complete_execution_with_attrs(InstrAt(prog, addr), attrs)
    THEN Evaluated(e, add_execution_branch(e, InstrAt(prog, addr).branch),
                   "complete", addr)
    ELSE Evaluated(e, e, "complete", addr)

\* ------------------------------------------------------------------- jumps

\* The loop that counts the sets from 1 in the restore point.
RECURSIVE TryJumpSetsLoop_one_based(_, _, _, _)
TryJumpSetsLoop_one_based(prog, sets, i, e) ==
    IF i >= Len(sets) THEN Ok(e)
    ELSE LET r == try_exec_instr_set_without_attrs(prog, sets[i + 1],
                        [e EXCEPT !.at.instr_set_idx = i])
         IN  IF r.err # None
             THEN Err(r.e, r.err[1].at_addr,
                      Ptr(0, i + 1, r.err[1].restore_point.offset))
             ELSE TryJumpSetsLoop_one_based(prog, sets, i + 1, r.e)

\* The loop `for (i, jumps) in sets.iter().enumerate()` of the two
\* try_exec_*jumps_without_attrs functions, from index i on (counting from 0);
\* a bailout carries the index of the interrupted set.
RECURSIVE TryJumpSetsLoop(_, _, _, _)
TryJumpSetsLoop(prog, sets, i, e) ==
    IF i >= Len(sets) THEN Ok(e)
    ELSE LET r == try_exec_instr_set_without_attrs(prog, sets[i + 1],
                        [e EXCEPT !.at.instr_set_idx = i])
         IN  IF r.err # None
             THEN Err(r.e, r.err[1].at_addr,
                      Ptr(0, i, r.err[1].restore_point.offset))
             ELSE TryJumpSetsLoop(prog, sets, i + 1, r.e)

\* The child jumps of every open item, innermost first, instead of those of
\* the innermost item only.
RECURSIVE TryJumpsOfAllItems(_, _, _, _)
TryJumpsOfAllItems(prog, stk, i, e) ==
    IF i >= Len(stk) THEN Ok(e)
    ELSE LET r == TryJumpSetsLoop(prog, stk[Len(stk) - i].jumps, 0,
                      [e EXCEPT !.at = At("jumps", i, 0)])
         IN  IF r.err # None THEN r
             ELSE TryJumpsOfAllItems(prog, stk, i + 1, r.e)

try_exec_jumps_without_attrs_all_items(prog, stk, e) ==
    TryJumpsOfAllItems(prog, stk, 0, e)

\* SelectorMatchingVm::try_exec_jumps_without_attrs
try_exec_jumps_without_attrs(prog, stk, e) ==
    IF stk = <<>> THEN Ok(e)
    ELSE TryJumpSetsLoop(prog, stk[Len(stk)].jumps, 0,
                         [e EXCEPT !.at = At("jumps", 0, 0)])

\* The loop `for jumps in sets.iter().skip(i)` of the exec_*jumps_with_attrs
\* functions: every set from index i on, each from its own start.
RECURSIVE ExecJumpSetsLoop(_, _, _, _, _)
ExecJumpSetsLoop(prog, sets, i, attrs, e) ==
    IF i >= Len(sets) THEN e
    ELSE ExecJumpSetsLoop(prog, sets, i + 1, attrs,
            exec_instr_set_with_attrs(prog, sets[i + 1], attrs,
                [e EXCEPT !.at.instr_set_idx = i], 0))

\* `sets.get(ptr.instr_set_idx)` and what follows it: the pointed set from
\* ptr.offset, then the remaining sets as usual; nothing when get is None.
ExecPointedJumpSets(prog, sets, attrs, e, ptr) ==
    IF ptr.instr_set_idx < Len(sets)
    THEN ExecJumpSetsLoop(prog, sets, ptr.instr_set_idx + 1, attrs,
            exec_instr_set_with_attrs(prog, sets[ptr.instr_set_idx + 1], attrs,
                [e EXCEPT !.at.instr_set_idx = ptr.instr_set_idx], ptr.offset))
    ELSE e

\* SelectorMatchingVm::exec_jumps_with_attrs
exec_jumps_with_attrs(prog, stk, attrs, e, ptr) ==
    IF stk = <<>> THEN e
    ELSE ExecPointedJumpSets(prog, stk[Len(stk)].jumps, attrs,
                             [e EXCEPT !.at = At("jumps", 0, 0)], ptr)

\* The ancestor loop that stops after the innermost ancestor, whatever its
\* flag says.
TryHereditaryLoop_stops_after_innermost(prog, stk, i, e) ==
    IF i >= Len(stk) THEN Ok(e)
    ELSE LET ancestor == stk[Len(stk) - i]
             r == TryJumpSetsLoop(prog, ancestor.hereditary_jumps, 0,
                      [e EXCEPT !.at = At("hereditary_jumps", i, 0)])
         IN  IF r.err # None
             THEN Err(r.e, r.err[1].at_addr,
                      Ptr(i, r.err[1].restore_point.instr_set_idx,
                          r.err[1].restore_point.offset))
             ELSE Ok([r.e EXCEPT !.stopped = Some(i)])

\* The ancestor loop that stops at the first ancestor without descendant
\* jumps of its own instead of reading the flag.
RECURSIVE TryHereditaryLoop_stops_at_jumpless(_, _, _, _)
TryHereditaryLoop_stops_at_jumpless(prog, stk, i, e) ==
    IF i >= Len(stk) THEN Ok(e)
    ELSE LET ancestor == stk[Len(stk) - i]
             r == TryJumpSetsLoop(prog, ancestor.hereditary_jumps, 0,
                      [e EXCEPT !.at = At("hereditary_jumps", i, 0)])
         IN  IF r.err # None
             THEN Err(r.e, r.err[1].at_addr,
                      Ptr(i, r.err[1].restore_point.instr_set_idx,
                          r.err[1].restore_point.offset))
             ELSE IF ancestor.hereditary_jumps = <<>>
             THEN Ok([r.e EXCEPT !.stopped = Some(i)])
             ELSE TryHereditaryLoop_stops_at_jumpless(prog, stk, i + 1, r.e)

\* The ancestor loop of try_exec_hereditary_jumps_without_attrs:
\* items().iter().rev().enumerate() from position i on (0 is the top).
RECURSIVE TryHereditaryLoop(_, _, _, _)
TryHereditaryLoop(prog, stk, i, e) ==
    IF i >= Len(stk) THEN Ok(e)
    ELSE LET ancestor == stk[Len(stk) - i]
             r == TryJumpSetsLoop(prog, ancestor.hereditary_jumps, 0,
                      [e EXCEPT !.at = At("hereditary_jumps", i, 0)])
         IN  IF r.err # None
             THEN Err(r.e, r.err[1].at_addr,
                      Ptr(i, r.err[1].restore_point.instr_set_idx,
                          r.err[1].restore_point.offset))
             ELSE IF ~ancestor.has_ancestor_with_hereditary_jumps
             THEN Ok([r.e EXCEPT !.stopped = Some(i)])
             ELSE TryHereditaryLoop(prog, stk, i + 1, r.e)

\* SelectorMatchingVm::try_exec_hereditary_jumps_without_attrs
try_exec_hereditary_jumps_without_attrs(prog, stk, e) ==
    TryHereditaryLoop(prog, stk, 0, e)

\* The loop over the remaining ancestors of exec_hereditary_jumps_with_attrs:
\* items.iter().rev().skip(i), with its early break.
RECURSIVE ExecHereditaryLoop(_, _, _, _, _)
ExecHereditaryLoop(prog, stk, i, attrs, e) ==
    IF i >= Len(stk) THEN e
    ELSE LET ancestor == stk[Len(stk) - i]
             e1 == ExecJumpSetsLoop(prog, ancestor.hereditary_jumps, 0, attrs,
                      [e EXCEPT !.at = At("hereditary_jumps", i, 0)])
         IN  IF ~ancestor.has_ancestor_with_hereditary_jumps
             THEN [e1 EXCEPT !.stopped = Some(i)]
             ELSE ExecHereditaryLoop(prog, stk, i + 1, attrs, e1)

\* `items.len() - 1 - ptr.stack_offset` leaves the range of usize: a build
\* with overflow checks panics there, a build without them wraps around.
PtrAncestorIdxOverflows(stk, ptr) ==
    stk # <<>> /\ ptr.stack_offset > Len(stk) - 1

\* SelectorMatchingVm::exec_hereditary_jumps_with_attrs (on a wrapped
\* ptr_ancestor_idx items.get is None and nothing is executed).
exec_hereditary_jumps_with_attrs(prog, stk, attrs, e, ptr) ==
    IF stk = <<>> \/ PtrAncestorIdxOverflows(stk, ptr) THEN e
    ELSE LET ptr_ancestor == stk[Len(stk) - ptr.stack_offset]
             e1 == ExecPointedJumpSets(prog, ptr_ancestor.hereditary_jumps,
                      attrs,
                      [e EXCEPT !.at = At("hereditary_jumps", ptr.stack_offset, 0)],
                      ptr)
         IN  IF ptr_ancestor.has_ancestor_with_hereditary_jumps
             THEN ExecHereditaryLoop(prog, stk, ptr.stack_offset + 1, attrs, e1)
             ELSE [e1 EXCEPT !.stopped = Some(ptr.stack_offset)]

\* ------------------------------------------------------------ the VM's API
\* exec_for_start_tag yields the calls made to match_handler, the stack it
\* leaves, its Result (request is None for Ok(()) and Some(request) for
\* Err(request)) and the instructions it evaluated.

\* Done that pushes the item whatever with_content says.
Done_always_pushes(stk, e) ==
    [out |-> e.out, stack |-> push_item(stk, e.ctx.stack_item),
     request |-> None, trace |-> e.trace, stopped |-> e.stopped]

Done(stk, e) ==
    [out |-> e.out,
     stack |-> IF e.ctx.with_content THEN push_item(stk, e.ctx.stack_item)
               ELSE stk,
     request |-> None, trace |-> e.trace, stopped |-> e.stopped]

\* A return of Err(request) that pushes the item first.
Suspended_pushes(stk, e, request) ==
    [out |-> e.out, stack |-> push_item(stk, e.ctx.stack_item),
     request |-> Some(request), trace |-> e.trace, stopped |-> e.stopped]

Suspended(stk, e, request) ==
    [out |-> e.out, stack |-> stk, request |-> Some(request),
     trace |-> e.trace, stopped |-> e.stopped]

\* SelectorMatchingVm::aux_info_request: the boxed FnMut that holds the
\* FnOnce closure in `wrap` until its first call takes it.
aux_info_request(req) == [wrap |-> Some(req)]

\* The closure built by exec_for_start_tag for PushIfNotSelfClosing.
ExecAllClosure(ctx) ==
    [handler |-> "exec_all", ctx |-> ctx, at_addr |-> 0,
     restore_point |-> DefaultPtr]

\* SelectorMatchingVm::bailout: the closure that completes the instruction
\* at bailout.at_addr and recovers through restore_point_handler.
bailout(e, b, restore_point_handler) ==
    aux_info_request([handler |-> restore_point_handler, ctx |-> e.ctx,
                      at_addr |-> b.at_addr, restore_point |-> b.restore_point])

\* exec_without_attrs that drops a bailout of the descendant-jump phase.
exec_without_attrs_ignores_hereditary_bailout(prog, stk, ctx) ==
    LET r1 == try_exec_instr_set_without_attrs(prog, prog.entry_points,
                                               NewExec(ctx))
        r2 == try_exec_jumps_without_attrs(prog, stk, r1.e)
        r3 == try_exec_hereditary_jumps_without_attrs(prog, stk, r2.e)
    IN  IF r1.err # None
        THEN Suspended(stk, r1.e, bailout(r1.e, r1.err[1], "entry_points"))
        ELSE IF r2.err # None
        THEN Suspended(stk, r2.e, bailout(r2.e, r2.err[1], "jumps"))
        ELSE Done(stk, r3.e)

\* SelectorMatchingVm::exec_without_attrs
exec_without_attrs(prog, stk, ctx) ==
    LET r1 == try_exec_instr_set_without_attrs(prog, prog.entry_points,
                                               NewExec(ctx))
        r2 == try_exec_jumps_without_attrs(prog, stk, r1.e)
        r3 == try_exec_hereditary_jumps_without_attrs(prog, stk, r2.e)
    IN  IF r1.err # None
        THEN Suspended(stk, r1.e, bailout(r1.e, r1.err[1], "entry_points"))
        ELSE IF r2.err # None
        THEN Suspended(stk, r2.e, bailout(r2.e, r2.err[1], "jumps"))
        ELSE IF r3.err # None
        THEN Suspended(stk, r3.e, bailout(r3.e, r3.err[1], "hereditary_jumps"))
        ELSE Done(stk, r3.e)

\* exec_for_start_tag that leaves with_content set for PopImmediately.
exec_for_start_tag_void_with_content(prog, stk, local_name, ns) ==
    LET ctx == NewCtx(local_name, ns)
        stack_directive == get_stack_directive(ctx.stack_item, ns)
    IN  IF stack_directive = "PushIfNotSelfClosing"
        THEN Suspended(stk, NewExec(ctx),
                       aux_info_request(ExecAllClosure(ctx)))
        ELSE exec_without_attrs(prog, stk, ctx)

\* SelectorMatchingVm::exec_for_start_tag
exec_for_start_tag(prog, stk, local_name, ns) ==
    LET ctx == NewCtx(local_name, ns)
        stack_directive == get_stack_directive(ctx.stack_item, ns)
    IN  IF stack_directive = "PopImmediately"
        THEN exec_without_attrs(prog, stk, [ctx EXCEPT !.with_content = FALSE])
        ELSE IF stack_directive = "PushIfNotSelfClosing"
        THEN Suspended(stk, NewExec(ctx),
                       aux_info_request(ExecAllClosure(ctx)))
        ELSE exec_without_attrs(prog, stk, ctx)

\* The recovery that runs the descendant jumps before the child jumps.
recover_in_entry_points_hereditary_first(prog, stk, attrs, e, restore_point) ==
    exec_jumps_with_attrs(prog, stk, attrs,
        exec_hereditary_jumps_with_attrs(prog, stk, attrs,
            exec_instr_set_with_attrs(prog, prog.entry_points, attrs,
                [e EXCEPT !.at = At("entry_points", 0, 0)],
                restore_point.offset),
            DefaultPtr),
        DefaultPtr)

\* recover_after_bailout_in_entry_points
recover_after_bailout_in_entry_points(prog, stk, attrs, e, restore_point) ==
    exec_hereditary_jumps_with_attrs(prog, stk, attrs,
        exec_jumps_with_attrs(prog, stk, attrs,
            exec_instr_set_with_attrs(prog, prog.entry_points, attrs,
                [e EXCEPT !.at = At("entry_points", 0, 0)],
                restore_point.offset),
            DefaultPtr),
        DefaultPtr)

\* The recovery that stops after the child jumps.
recover_in_jumps_skips_hereditary(prog, stk, attrs, e, restore_point) ==
    exec_jumps_with_attrs(prog, stk, attrs, e, restore_point)

\* recover_after_bailout_in_jumps
recover_after_bailout_in_jumps(prog, stk, attrs, e, restore_point) ==
    exec_hereditary_jumps_with_attrs(prog, stk, attrs,
        exec_jumps_with_attrs(prog, stk, attrs, e, restore_point),
        DefaultPtr)

\* recover_after_bailout_in_hereditary_jumps
recover_after_bailout_in_hereditary_jumps(prog, stk, attrs, e, restore_point) ==
    exec_hereditary_jumps_with_attrs(prog, stk, attrs, e, restore_point)

\* The body of the closure of exec_for_start_tag (PushIfNotSelfClosing):
\* the whole start tag with attributes, every phase from offset zero.
ExecAllWithAttrs(prog, stk, attrs, e) ==
    exec_hereditary_jumps_with_attrs(prog, stk, attrs,
        exec_jumps_with_attrs(prog, stk, attrs,
            exec_instr_set_with_attrs(prog, prog.entry_points, attrs,
                [e EXCEPT !.at = At("entry_points", 0, 0)], 0),
            DefaultPtr),
        DefaultPtr)

\* The closure of PushIfNotSelfClosing without line 158: with_content stays
\* as ExecutionCtx::new set it.
CallClosure_ignores_self_closing(prog, stk, c, aux_info, overflow_checks) ==
    IF c.handler = "exec_all"
    THEN LET e == ExecAllWithAttrs(prog, stk, aux_info.attrs, NewExec(c.ctx))
         IN  [out |-> e.out, stack |-> Done(stk, e).stack, panic |-> FALSE,
              trace |-> e.trace, stopped |-> e.stopped]
    ELSE LET e0 == complete_instr_execution_with_attrs(prog, c.at_addr,
                        aux_info.attrs,
                        [NewExec(c.ctx) EXCEPT !.at =
                            At(c.handler, c.restore_point.stack_offset,
                               c.restore_point.instr_set_idx)])
             e == IF c.handler = "entry_points"
                  THEN recover_after_bailout_in_entry_points(prog, stk,
                            aux_info.attrs, e0, c.restore_point)
                  ELSE IF c.handler = "jumps"
                  THEN recover_after_bailout_in_jumps(prog, stk,
                            aux_info.attrs, e0, c.restore_point)
                  ELSE recover_after_bailout_in_hereditary_jumps(prog, stk,
                            aux_info.attrs, e0, c.restore_point)
         IN  IF /\ overflow_checks
                /\ c.handler = "hereditary_jumps"
                /\ PtrAncestorIdxOverflows(stk, c.restore_point)
             THEN [out |-> e0.out, stack |-> stk, panic |-> TRUE,
                   trace |-> e0.trace, stopped |-> None]
             ELSE [out |-> e.out, stack |-> Done(stk, e).stack, panic |-> FALSE,
                   trace |-> e.trace, stopped |-> e.stopped]

\* The call of a request's closure with aux_info = [attrs, self_closing]:
\* the calls made to match_handler, the stack left, whether the call
\* panicked (overflow_checks: the build checks integer overflow), and the
\* instructions evaluated.
CallClosure(prog, stk, c, aux_info, overflow_checks) ==
    IF c.handler = "exec_all"
    THEN LET ctx == [c.ctx EXCEPT !.with_content = ~aux_info.self_closing]
             e == ExecAllWithAttrs(prog, stk, aux_info.attrs, NewExec(ctx))
         IN  [out |-> e.out, stack |-> Done(stk, e).stack, panic |-> FALSE,
              trace |-> e.trace, stopped |-> e.stopped]
    ELSE LET e0 == complete_instr_execution_with_attrs(prog, c.at_addr,
                        aux_info.attrs,
                        [NewExec(c.ctx) EXCEPT !.at =
                            At(c.handler, c.restore_point.stack_offset,
                               c.restore_point.instr_set_idx)])
             e == IF c.handler = "entry_points"
                  THEN recover_after_bailout_in_entry_points(prog, stk,
                            aux_info.attrs, e0, c.restore_point)
                  ELSE IF c.handler = "jumps"
                  THEN recover_after_bailout_in_jumps(prog, stk,
                            aux_info.attrs, e0, c.restore_point)
                  ELSE recover_after_bailout_in_hereditary_jumps(prog, stk,
                            aux_info.attrs, e0, c.restore_point)
         IN  IF /\ overflow_checks
                /\ c.handler = "hereditary_jumps"
                /\ PtrAncestorIdxOverflows(stk, c.restore_point)
             THEN [out |-> e0.out, stack |-> stk, panic |-> TRUE,
                   trace |-> e0.trace, stopped |-> None]
             ELSE [out |-> e.out, stack |-> Done(stk, e).stack, panic |-> FALSE,
                   trace |-> e.trace, stopped |-> e.stopped]

\* Index (from 1) of the innermost item named local_name, 0 when there is none.
RECURSIVE InnermostNamed(_, _, _)
InnermostNamed(stk, local_name, i) ==
    IF i = 0 THEN 0
    ELSE IF stk[i].local_name = local_name THEN i
    ELSE InnermostNamed(stk, local_name, i - 1)

\* Index (from 1) of the outermost item named local_name, 0 when there is none.
RECURSIVE OutermostNamed(_, _, _)
OutermostNamed(stk, local_name, i) ==
    IF i > Len(stk) THEN 0
    ELSE IF stk[i].local_name = local_name THEN i
    ELSE OutermostNamed(stk, local_name, i + 1)

\* pop_up_to that pops down to the outermost item of that name.
pop_up_to_outermost(stk, local_name) ==
    LET i == OutermostNamed(stk, local_name, 1)
    IN  IF i = 0 THEN [stack |-> stk, unmatched |-> <<>>]
        ELSE [stack |-> SubSeq(stk, 1, i - 1),
              unmatched |-> [k \in 1..(Len(stk) - i + 1) |->
                                stk[Len(stk) - k + 1].matched_payload]]

\* pop_up_to that pops while the name differs without looking for a match
\* first: a stray end tag empties the stack.
pop_up_to_pops_all_on_stray(stk, local_name) ==
    LET i == IF InnermostNamed(stk, local_name, Len(stk)) = 0 THEN 1
             ELSE InnermostNamed(stk, local_name, Len(stk))
    IN  [stack |-> SubSeq(stk, 1, i - 1),
         unmatched |-> [k \in 1..(Len(stk) - i + 1) |->
                           stk[Len(stk) - k + 1].matched_payload]]

\* Stack::pop_up_to: the stack left, and for every popped item, innermost
\* first, the payloads handed to the unmatch handler (each member of the
\* item's matched_payload set once, in the set's iteration order).
pop_up_to(stk, local_name) ==
    LET i == InnermostNamed(stk, local_name, Len(stk))
    IN  IF i = 0 THEN [stack |-> stk, unmatched |-> <<>>]
        ELSE [stack |-> SubSeq(stk, 1, i - 1),
              unmatched |-> [k \in 1..(Len(stk) - i + 1) |->
                                stk[Len(stk) - k + 1].matched_payload]]

\* SelectorMatchingVm::exec_for_end_tag
exec_for_end_tag(stk, local_name) == pop_up_to(stk, local_name)

\* ------------------------------------------------------------------- state

VARIABLES
    program,      \* the compiled Program the VM owns
    stack,        \* SelectorMatchingVm.stack, innermost item last
    request,      \* the AuxStartTagInfoRequest the caller holds, if any
    invocations,  \* how often the caller has invoked that request
    cur,          \* the start tag last fed: name, namespace, attributes
    reports,      \* the MatchInfo values handed to match_handler for cur
    evals,        \* the instructions evaluated for cur, in order
    walk_stop,    \* where the last descendant-jump walk for cur stopped
    unmatched,    \* the unmatch handler's calls of the last end tag
    ev,           \* the last event
    panicked,     \* the VM panicked
    doc           \* the document driver's view of the open elements

vars == <<program, stack, request, invocations, cur, reports, evals,
          walk_stop, unmatched, ev, panicked, doc>>

Tags ==
    [local_name : LocalNames, ns : Namespaces, self_closing : BOOLEAN,
     attrs : SUBSET AttrNames]

\* An event: its kind ("init", "start", "serve", "end"), the local name it
\* carries, its result ("Ok", "Err", "panic"), and for a served request
\* whether it was served right after the start tag that issued it, with the
\* handler, bailout address and restore point of the closure that ran.
Event(kind, local_name, result, prompt, handler, at_addr, restore_point) ==
    [kind |-> kind, local_name |-> local_name, result |-> result,
     prompt |-> prompt, handler |-> handler, at_addr |-> at_addr,
     restore_point |-> restore_point]

PlainEvent(kind, local_name, result) ==
    Event(kind, local_name, result, FALSE, "none", 0, DefaultPtr)

\* The caller holds a request whose closure has not been taken yet.
RequestPending == request # None /\ request[1].wrap # None

\* SelectorMatchingVm::new: an empty stack.
Init ==
    /\ program \in Programs
    /\ stack = <<>>
    /\ request = None
    /\ invocations = 0
    /\ cur = None
    /\ reports = <<>>
    /\ evals = <<>>
    /\ walk_stop = None
    /\ unmatched = <<>>
    /\ ev = PlainEvent("init", "none", "none")
    /\ panicked = FALSE
    /\ doc = [open |-> <<>>, html_self_closing |-> FALSE]

\* The tokenizer feeds a start tag: exec_for_start_tag(local_name, ns, ..).
\* The caller keeps the request of an Err result (and drops an older one).
StartTagStep(tag) ==
    /\ ~panicked
    /\ Len(stack) < MaxDepth
    /\ \E r \in {exec_for_start_tag(program, stack, tag.local_name, tag.ns)} :
           /\ stack' = r.stack
           /\ request' = r.request
           /\ reports' = r.out
           /\ evals' = r.trace
           /\ walk_stop' = r.stopped
           /\ ev' = PlainEvent("start", tag.local_name,
                               IF r.request = None THEN "Ok" ELSE "Err")
    /\ invocations' = 0
    /\ cur' = Some(tag)
    /\ unmatched' = <<>>
    /\ UNCHANGED <<program, panicked>>

\* A box that calls the closure without taking it out of `wrap`: every
\* invocation runs it.
ServeStep_keeps_closure ==
    /\ ~panicked
    /\ request # None
    /\ invocations < MaxInvocations
    /\ invocations' = invocations + 1
    /\ \E overflow_checks \in BOOLEAN :
       \E r \in {CallClosure(program, stack, request[1].wrap[1],
                             [attrs |-> cur[1].attrs,
                              self_closing |-> cur[1].self_closing],
                             overflow_checks)} :
           /\ stack' = r.stack
           /\ reports' = reports \o r.out
           /\ evals' = evals \o r.trace
           /\ walk_stop' = r.stopped
           /\ panicked' = r.panic
           /\ request' = request
           /\ ev' = Event("serve", cur[1].local_name,
                          IF r.panic THEN "panic" ELSE "Ok",
                          ev.kind = "start",
                          request[1].wrap[1].handler,
                          request[1].wrap[1].at_addr,
                          request[1].wrap[1].restore_point)
    /\ unmatched' = <<>>
    /\ UNCHANGED <<program, cur>>

\* The caller invokes the request it holds with the tag's AuxStartTagInfo.
\* The box takes the closure out of `wrap`; a call that finds it taken
\* panics in expect("FnOnce called more than once").  Whether an integer
\* overflow panics or wraps is the build's choice.
ServeStep ==
    /\ ~panicked
    /\ request # None
    /\ invocations < MaxInvocations
    /\ invocations' = invocations + 1
    /\ IF request[1].wrap = None
       THEN /\ panicked' = TRUE
            /\ ev' = PlainEvent("serve", "none", "panic")
            /\ UNCHANGED <<stack, request, reports, evals, walk_stop>>
       ELSE \E overflow_checks \in BOOLEAN :
            \E r \in {CallClosure(program, stack, request[1].wrap[1],
                                  [attrs |-> cur[1].attrs,
                                   self_closing |-> cur[1].self_closing],
                                  overflow_checks)} :
                /\ stack' = r.stack
                /\ reports' = reports \o r.out
                /\ evals' = evals \o r.trace
                /\ walk_stop' = r.stopped
                /\ panicked' = r.panic
                /\ request' = Some([wrap |-> None])
                /\ ev' = Event("serve", cur[1].local_name,
                               IF r.panic THEN "panic" ELSE "Ok",
                               ev.kind = "start",
                               request[1].wrap[1].handler,
                               request[1].wrap[1].at_addr,
                               request[1].wrap[1].restore_point)
    /\ unmatched' = <<>>
    /\ UNCHANGED <<program, cur>>

\* The tokenizer feeds an end tag: exec_for_end_tag(local_name, ..).  Once no
\* callable request is held, the driver forgets the tag it belonged to.
EndTagStep(local_name) ==
    /\ ~panicked
    /\ \E r \in {exec_for_end_tag(stack, local_name)} :
           /\ stack' = r.stack
           /\ unmatched' = r.unmatched
    /\ ev' = PlainEvent("end", local_name, "none")
    /\ IF RequestPending
       THEN UNCHANGED <<cur, reports, evals, walk_stop>>
       ELSE cur' = None /\ reports' = <<>> /\ evals' = <<>> /\ walk_stop' = None
    /\ UNCHANGED <<program, request, invocations, panicked>>

\* Any caller: events in any order.
StartTag == \E tag \in Tags : StartTagStep(tag) /\ UNCHANGED doc

Serve == ServeStep /\ UNCHANGED doc

EndTag == \E local_name \in LocalNames : EndTagStep(local_name) /\ UNCHANGED doc

Next == StartTag \/ Serve \/ EndTag

Spec == Init /\ [][Next]_vars

\* ------------------------------------------------- well-formed documents
\* A driver that feeds a well-formed document: every request is served
\* before the next event, an element with content (neither void nor
\* self-closed) is closed by its own end tag in nesting order, and no other
\* end tag occurs.  doc.open lists the open elements with content;
\* doc.html_self_closing records that a non-void HTML start tag carried the
\* self-closing flag.

IsVoid(tag) == tag.ns = "Html" /\ tag.local_name \in VoidNames

WFStartTag ==
    \E tag \in Tags :
        /\ ~RequestPending
        /\ StartTagStep(tag)
        /\ doc' = [open |-> IF IsVoid(tag) \/ tag.self_closing THEN doc.open
                            ELSE Append(doc.open, tag.local_name),
                   html_self_closing |->
                       \/ doc.html_self_closing
                       \/ tag.ns = "Html" /\ ~IsVoid(tag) /\ tag.self_closing]

WFServe == RequestPending /\ ServeStep /\ UNCHANGED doc

WFEndTag ==
    /\ ~RequestPending
    /\ doc.open # <<>>
    /\ EndTagStep(doc.open[Len(doc.open)])
    /\ doc' = [doc EXCEPT !.open = SubSeq(doc.open, 1, Len(doc.open) - 1)]

NextWF == WFStartTag \/ WFServe \/ WFEndTag

SpecWF == Init /\ [][NextWF]_vars

\* ------------------------------------------------------------------ claims

\* The last event completed the matching of the element cur: a start tag that
\* returned Ok(()), or a served request that returned.
ElementDone == ev.kind \in {"start", "serve"} /\ ev.result = "Ok"

\* The last event served the request of a bailout right after the start tag
\* that issued it, so the stack is the one the no-attribute phase ran on.
BailoutServed ==
    /\ ev.kind = "serve"
    /\ ev.result = "Ok"
    /\ ev.prompt
    /\ ev.handler \in {"entry_points", "jumps", "hereditary_jumps"}

\* with_content of an element matched without PushIfNotSelfClosing.
NoAttrWithContent(tag) ==
    get_stack_directive(NewStackItem(tag.local_name), tag.ns) # "PopImmediately"

\* The stack before the element cur was pushed (if it was).
StackBefore(pushed) ==
    IF pushed THEN SubSeq(stack, 1, Len(stack) - 1) ELSE stack

\* The whole start tag of cur in one pass with attributes on stack stk: entry
\* points, child jumps and descendant jumps, each from offset zero.
SinglePass(stk, with_content) ==
    ExecAllWithAttrs(program, stk, cur[1].attrs,
        NewExec([NewCtx(cur[1].local_name, cur[1].ns)
                     EXCEPT !.with_content = with_content]))

\* C1: a no-attribute run that bails out, followed by serving the request,
\* makes the same match reports in the same order and leaves the same stack
\* (the same pushed item) as one pass with attributes over the entry points,
\* the child jumps and the descendant jumps from offset zero.
C1_BailoutResumeEqualsSinglePass ==
    BailoutServed =>
        LET with_content == NoAttrWithContent(cur[1])
            before == StackBefore(with_content)
            single == SinglePass(before, with_content)
        IN  /\ reports = single.out
            /\ stack = Done(before, single).stack

\* A descendant-jump bailout past the first instruction of a set of the
\* innermost ancestor, served on a stack of two ancestors that both carry
\* descendant jumps, with reports made in both phases.
C1_Witness ==
    /\ BailoutServed
    /\ ev.handler = "hereditary_jumps"
    /\ ev.restore_point.stack_offset = 0
    /\ ev.restore_point.offset = 2
    /\ Len(stack) = 3
    /\ stack[2].has_ancestor_with_hereditary_jumps
    /\ Len(reports) = 2

\* C2: the match handler is never invoked twice with the same payload for
\* one element, over the no-attribute phase and the served request together.
C2_NoPayloadReportedTwice ==
    \A i, j \in DOMAIN reports :
        reports[i].payload = reports[j].payload => i = j

\* The payloads a sequence of instruction sets carries, with repetitions.
RECURSIVE PayloadCount(_, _)
PayloadCount(sets, payload) ==
    IF sets = <<>> THEN 0
    ELSE Cardinality({<<addr, k>> \in
                (sets[1].start .. sets[1].end - 1) \X (1..2) :
                    /\ k \in DOMAIN InstrAt(program, addr).branch.matched_payload
                    /\ InstrAt(program, addr).branch.matched_payload[k] = payload})
         + PayloadCount(Tail(sets), payload)

\* A child of an element whose child and descendant jump sets carry payload 3
\* several times: it is reported before the bailout, met again while the
\* request is served, and reported once.
C2_Witness ==
    /\ BailoutServed
    /\ ev.handler = "jumps"
    /\ Len(stack) = 2
    /\ PayloadCount(stack[1].jumps \o stack[1].hereditary_jumps, 3) >= 3
    /\ reports[1] = MatchInfo(3, TRUE)
    /\ Len(reports) = 4

\* The payloads reported for cur with with_content = true.
ReportedWithContent ==
    {reports[i].payload : i \in {k \in DOMAIN reports : reports[k].with_content}}

\* The step completes the matching of an element (start tag returned Ok(()),
\* or a served request returned).
CompletesElement == ev'.kind \in {"start", "serve"} /\ ev'.result = "Ok"

\* C3: every payload reported with with_content = true for an element is
\* handed to the unmatch handler exactly once, at the end tag that pops the
\* element's item, and nothing else is handed to it: an element completes
\* either pushed, its item holding exactly the payloads reported (all with
\* content), or unpushed with no report with content; a start tag or served
\* request leaves the items below untouched; and an end tag hands over, item
\* by item from the top, exactly the payloads of the items it pops.
C3_UnmatchedExactlyOnce ==
    [][/\ CompletesElement =>
            \/ /\ stack' = stack
               /\ ReportedWithContent' = {}
            \/ /\ Len(stack') = Len(stack) + 1
               /\ stack'[Len(stack')].matched_payload = ReportedWithContent'
               /\ \A i \in DOMAIN reports' : reports'[i].with_content
       /\ ev'.kind \in {"start", "serve"} =>
            SubSeq(stack', 1, Len(stack)) = stack
       /\ ev'.kind = "end" =>
            /\ Len(stack') <= Len(stack)
            /\ stack' = SubSeq(stack, 1, Len(stack'))
            /\ unmatched' = [k \in 1..(Len(stack) - Len(stack')) |->
                                 stack[Len(stack) - k + 1].matched_payload]
      ]_vars

\* An end tag popped two items, each with payloads reported for it.
C3_Witness ==
    /\ ev.kind = "end"
    /\ Len(unmatched) = 2
    /\ unmatched[1] # {}
    /\ unmatched[2] # {}
    /\ stack # <<>>

\* The ancestors the descendant-jump walk visits on stk: from the top down to
\* the first item without has_ancestor_with_hereditary_jumps.
WalkedAncestors(stk) ==
    {i \in DOMAIN stk :
        \A j \in (i + 1)..Len(stk) : stk[j].has_ancestor_with_hereditary_jumps}

\* The addresses the no-attribute phase may evaluate on stk.
NoAttrAddrs(stk) ==
    (program.entry_points.start .. program.entry_points.end - 1)
    \cup (IF stk = <<>> THEN {}
          ELSE UNION {stk[Len(stk)].jumps[k].start .. stk[Len(stk)].jumps[k].end - 1 :
                        k \in DOMAIN stk[Len(stk)].jumps})
    \cup UNION {UNION {stk[i].hereditary_jumps[k].start ..
                         stk[i].hereditary_jumps[k].end - 1 :
                            k \in DOMAIN stk[i].hereditary_jumps} :
                i \in WalkedAncestors(stk)}

\* Some instruction of the no-attribute phase bails out for local_name.
SomeInstrBailsOut(stk, local_name) ==
    \E addr \in NoAttrAddrs(stk) :
        try_exec_without_attrs(InstrAt(program, addr), local_name) = "Err"

CurDirective == get_stack_directive(NewStackItem(cur[1].local_name), cur[1].ns)

\* C4: exec_for_start_tag returns a request if and only if the directive is
\* PushIfNotSelfClosing or some instruction bails out in the no-attribute
\* phase, the caller then holds exactly one callable request, and serving a
\* request leaves no callable request behind.
C4_OneSuspensionPerStartTag ==
    /\ ev.kind = "start" =>
          /\ ev.result = "Err" <=>
                \/ CurDirective = "PushIfNotSelfClosing"
                \/ SomeInstrBailsOut(
                        StackBefore(ev.result = "Ok" /\ CurDirective = "Push"),
                        cur[1].local_name)
          /\ ev.result = "Err" <=> RequestPending
          /\ ev.result = "Ok" <=> request = None
    /\ ev.kind = "serve" => ~RequestPending

\* A start tag bailed out in a descendant jump of an outer ancestor and
\* returned a request, its directive being Push.
C4_Witness ==
    /\ ev.kind = "start"
    /\ ev.result = "Err"
    /\ CurDirective = "Push"
    /\ request[1].wrap[1].handler = "hereditary_jumps"
    /\ request[1].wrap[1].restore_point.stack_offset = 1

\* C5: invoking a request a second time panics before any instruction is
\* executed: no call to the match handler, no change to the stack.
C5_SecondInvocationFailsFast ==
    [][(invocations >= 1 /\ invocations' = invocations + 1) =>
            /\ panicked'
            /\ stack' = stack
            /\ reports' = reports
      ]_vars

\* A request that pushed its element and reported a payload was invoked
\* again, and the call panicked.
C5_Witness ==
    /\ invocations = 2
    /\ panicked
    /\ ev.handler = "none"
    /\ stack # <<>>
    /\ reports # <<>>

\* The step is a start tag or a served request of an element for which
\* NoContent holds: its stack is left as it was and every report made for it
\* so far carries with_content = false.
NoContentStep(NoContent(_)) ==
    (ev'.kind \in {"start", "serve"} /\ cur' # None /\ NoContent(cur'[1])) =>
        /\ stack' = stack
        /\ \A i \in DOMAIN reports' : ~reports'[i].with_content

\* The element is void, or its self-closing flag is set (in any namespace).
VoidOrSelfClosing(tag) == IsVoid(tag) \/ tag.self_closing

\* The element is void, or its directive is PushIfNotSelfClosing and its
\* self-closing flag is set.
VoidOrForeignSelfClosing(tag) ==
    \/ IsVoid(tag)
    \/ /\ get_stack_directive(NewStackItem(tag.local_name), tag.ns)
            = "PushIfNotSelfClosing"
       /\ tag.self_closing

\* C6 as stated: for a void element or one whose self-closing flag is set, in
\* any namespace, every report carries with_content = false and no item is
\* pushed.
C6_AsStated == [][NoContentStep(VoidOrSelfClosing)]_vars

\* C6 amended: for a void element (PopImmediately) or an element whose
\* directive is PushIfNotSelfClosing and whose self-closing flag is set, every
\* report carries with_content = false and no item is pushed, whether the
\* matching completes in the no-attribute phase or in a served request.
C6_NoContentNotPushed == [][NoContentStep(VoidOrForeignSelfClosing)]_vars

\* A void element bailed out, its request was served on a non-empty stack and
\* reported its payload without content.
C6_Witness ==
    /\ ev.kind = "serve"
    /\ ev.result = "Ok"
    /\ ev.handler = "entry_points"
    /\ IsVoid(cur[1])
    /\ reports = <<MatchInfo(8, FALSE)>>
    /\ stack # <<>>

\* C7: after an end tag for local name L with an open item named L, the
\* stack is exactly the items below the innermost item named L, unchanged.
C7_EndTagPopsToInnermost ==
    [][ev'.kind = "end" =>
            \A i \in DOMAIN stack :
                (/\ stack[i].local_name = ev'.local_name
                 /\ \A j \in (i + 1)..Len(stack) :
                        stack[j].local_name # ev'.local_name)
                => stack' = SubSeq(stack, 1, i - 1)
      ]_vars

\* An end tag popped two items and left an outer item of the same name.
C7_Witness ==
    /\ ev.kind = "end"
    /\ Len(unmatched) = 2
    /\ Len(stack) = 1
    /\ stack[1].local_name = ev.local_name

\* C8: an end tag whose local name no open item has is ignored: the stack is
\* unchanged, the unmatch handler is not invoked, nothing panics.
C8_StrayEndTagIgnored ==
    [][(/\ ev'.kind = "end"
        /\ \A i \in DOMAIN stack : stack[i].local_name # ev'.local_name)
        => /\ stack' = stack
           /\ unmatched' = <<>>
           /\ ~panicked'
      ]_vars

\* A stray end tag arrived while other elements were open (the end tag of a
\* void element that was never pushed).
C8_Witness ==
    /\ ev.kind = "end"
    /\ ev.local_name = "br"
    /\ Len(stack) = 2
    /\ \A i \in DOMAIN stack : stack[i].local_name # "br"
    /\ unmatched = <<>>

\* C9: has_ancestor_with_hereditary_jumps of item i is true if and only if
\* some item below i has a non-empty descendant-jump list.
C9_HasAncestorFlag ==
    \A i \in DOMAIN stack :
        stack[i].has_ancestor_with_hereditary_jumps
            <=> \E j \in 1..(i - 1) : stack[j].hereditary_jumps # <<>>

\* The flag is carried past an item without descendant jumps: the outermost
\* item has them, the middle one has none, the innermost has the flag.
C9_Witness ==
    /\ Len(stack) = 3
    /\ stack[1].hereditary_jumps # <<>>
    /\ stack[2].hereditary_jumps = <<>>
    /\ stack[3].has_ancestor_with_hereditary_jumps
    /\ ev.kind = "serve"

\* The local names of the items on the stack, outermost first.
StackNames == [i \in DOMAIN stack |-> stack[i].local_name]

\* C10 as stated: while a well-formed document is processed and no request
\* is pending, the stack holds exactly the open elements that are neither
\* void nor self-closed, so it is empty once all of them are closed.
C10_AsStated == ~RequestPending => StackNames = doc.open

\* C10 amended: the same, for documents in which the self-closing flag is
\* set on no non-void HTML start tag (the VM ignores the flag in the HTML
\* namespace and pushes such an element).
C10_StackMatchesOpenElements ==
    (~RequestPending /\ ~doc.html_self_closing) => StackNames = doc.open

\* The end tag of the outermost element of a document, whose request had been
\* served, closed it, handing over its payloads, and left the stack empty.
C10_Witness ==
    /\ ev.kind = "end"
    /\ doc.open = <<>>
    /\ ~doc.html_self_closing
    /\ stack = <<>>
    /\ request = Some([wrap |-> None])
    /\ Len(unmatched) = 1
    /\ unmatched[1] # {}

\* The payloads the evaluations of a trace reported, in order.
RECURSIVE ReportedBy(_)
ReportedBy(trace) ==
    IF trace = <<>> THEN <<>>
    ELSE trace[1].reported \o ReportedBy(Tail(trace))

PhaseRank(phase) ==
    CASE phase = "entry_points" -> 0
      [] phase = "jumps" -> 1
      [] phase = "hereditary_jumps" -> 2

\* Evaluation x comes before evaluation y in the order: phase (entry points,
\* child jumps, descendant jumps), then ancestor from the innermost outwards,
\* then index of the instruction set, then address.
EvalBefore(x, y) ==
    \/ PhaseRank(x.phase) < PhaseRank(y.phase)
    \/ /\ x.phase = y.phase
       /\ \/ x.stack_offset < y.stack_offset
          \/ /\ x.stack_offset = y.stack_offset
             /\ \/ x.instr_set_idx < y.instr_set_idx
                \/ /\ x.instr_set_idx = y.instr_set_idx
                   /\ x.addr < y.addr

\* x is the evaluation that bailed out and y completes that very instruction.
Completes(x, y) ==
    /\ x.how = "try"
    /\ y.how = "complete"
    /\ x.reported = <<>>
    /\ [x EXCEPT !.how = "complete", !.reported = y.reported] = y

\* The last event is a start tag, or the service of a request right after
\* the start tag that issued it, as the interface requires: the stack is the
\* one the request was issued on.
InContract ==
    \/ ev.kind = "start"
    \/ ev.kind = "serve" /\ ev.result = "Ok" /\ ev.prompt

\* C11, order: the reports of an element are the reports of the instructions
\* evaluated for it, in evaluation order, and the evaluations follow the
\* order entry points by address, then child jumps by set index and address,
\* then descendant jumps by ancestor (innermost first), set index and
\* address, the only repetition being the completion of the instruction that
\* bailed out, right after its bailout (the order is that of a request
\* served on the stack it was issued on).
C11_EvalOrder ==
    /\ [i \in DOMAIN reports |-> reports[i].payload] = ReportedBy(evals)
    /\ InContract =>
          \A i, j \in DOMAIN evals :
              i < j => \/ EvalBefore(evals[i], evals[j])
                       \/ j = i + 1 /\ Completes(evals[i], evals[j])

\* C11: within one element the match reports are made in phase order (entry
\* points by address, child jumps by set index and address, descendant
\* jumps by ancestor from the innermost, set index and address), with or
\* without a bailout, and all of them before the element's item is pushed:
\* a step that reports starts from a stack without the item and, if it
\* pushes it, the item holds every payload reported for the element.
C11_ReportsInPhaseOrder ==
    /\ []C11_EvalOrder
    /\ [][(ev'.kind \in {"start", "serve"} /\ reports' # reports) =>
            /\ SubSeq(stack', 1, Len(stack)) = stack
            /\ Len(stack') <= Len(stack) + 1
            /\ Len(stack') = Len(stack) + 1 =>
                  \A i \in DOMAIN reports' :
                      reports'[i].payload \in stack'[Len(stack')].matched_payload
         ]_vars

\* A child of an element with child and descendant jumps bailed out in a
\* child jump after a report; the served request completed the instruction
\* with a report, went on through the descendant jumps, which reported too,
\* and pushed the item.
C11_Witness ==
    /\ BailoutServed
    /\ ev.handler = "jumps"
    /\ \E i, j, k \in DOMAIN evals :
          /\ i < j /\ j < k
          /\ evals[i].phase = "jumps" /\ evals[i].how = "try"
          /\ evals[i].reported # <<>>
          /\ evals[j].how = "complete" /\ evals[j].reported # <<>>
          /\ evals[k].phase = "hereditary_jumps" /\ evals[k].reported # <<>>
    /\ evals[1].phase = "entry_points"
    /\ Len(stack) = 2
    /\ stack[2].matched_payload = {reports[i].payload : i \in DOMAIN reports}

\* The stack item the closure of PushIfNotSelfClosing builds for cur on stk.
ExecAllItem(stk, tag) ==
    ExecAllWithAttrs(program, stk, tag.attrs,
        NewExec([NewCtx(tag.local_name, tag.ns)
                     EXCEPT !.with_content = ~tag.self_closing])).ctx.stack_item

\* C12: for an element whose directive is PushIfNotSelfClosing the start tag
\* returns the request at once, with no call of the match handler, no
\* instruction evaluated and the stack untouched; the request served with
\* self_closing = true makes every report with with_content = false, records
\* no child or descendant jump for the element and pushes nothing; served
\* with self_closing = false it makes every report with with_content = true
\* and pushes exactly one item, the element's.
C12_PushIfNotSelfClosing ==
    [][/\ (/\ ev'.kind = "start"
           /\ get_stack_directive(NewStackItem(cur'[1].local_name), cur'[1].ns)
                = "PushIfNotSelfClosing")
          => /\ ev'.result = "Err"
             /\ request'[1].wrap # None
             /\ request'[1].wrap[1].handler = "exec_all"
             /\ reports' = <<>>
             /\ evals' = <<>>
             /\ stack' = stack
       /\ (ev'.kind = "serve" /\ ev'.handler = "exec_all")
          => IF cur[1].self_closing
             THEN /\ \A i \in DOMAIN reports' : ~reports'[i].with_content
                  /\ ExecAllItem(stack, cur[1]).jumps = <<>>
                  /\ ExecAllItem(stack, cur[1]).hereditary_jumps = <<>>
                  /\ stack' = stack
             ELSE /\ \A i \in DOMAIN reports' : reports'[i].with_content
                  /\ Len(stack') = Len(stack) + 1
                  /\ SubSeq(stack', 1, Len(stack)) = stack
                  /\ stack'[Len(stack')].local_name = cur[1].local_name
      ]_vars

\* A self-closing foreign element whose name an entry point with child and
\* descendant jumps matches was served under an open element: it was
\* reported without content and the stack is as before.
C12_Witness ==
    /\ ev.kind = "serve"
    /\ ev.handler = "exec_all"
    /\ cur[1].self_closing
    /\ cur[1].ns = "Svg"
    /\ reports = <<MatchInfo(1, FALSE)>>
    /\ \E i \in DOMAIN evals :
          /\ evals[i].reported = <<1>>
          /\ InstrAt(program, evals[i].addr).branch.jumps # None
          /\ InstrAt(program, evals[i].addr).branch.hereditary_jumps # None
    /\ Len(stack) = 1

\* The instruction set a restore point of the given handler points into, on
\* stack stk.
SetAt(stk, handler, ptr) ==
    IF handler = "entry_points" THEN program.entry_points
    ELSE IF handler = "jumps" THEN stk[Len(stk)].jumps[ptr.instr_set_idx + 1]
    ELSE stk[Len(stk) - ptr.stack_offset].hereditary_jumps[ptr.instr_set_idx + 1]

\* The evaluations of a trace that belong to the instruction set of a restore
\* point, as pairs of address and call.
EvalsOfSet(trace, handler, ptr) ==
    LET of_set(x) == /\ x.phase = handler
                     /\ x.stack_offset = ptr.stack_offset
                     /\ x.instr_set_idx = ptr.instr_set_idx
        sel == SelectSeq(trace, of_set)
    IN  [i \in DOMAIN sel |-> <<sel[i].addr, sel[i].how>>]

\* A set interrupted at address a and resumed: tried from its start up to a,
\* a completed, then executed from a + 1 to its end.
InterruptedAndResumed(set, a) ==
    [i \in 1..(set.end - set.start + 1) |->
        IF i <= a - set.start + 1 THEN <<set.start + i - 1, "try">>
        ELSE IF i = a - set.start + 2 THEN <<a, "complete">>
        ELSE <<set.start + i - 2, "exec">>]

\* C13: a bailout at address a of a set starting at s carries the restore
\* offset a - s + 1 (a inside the set, its instruction the one that needs
\* the attributes); the served request completes the instruction at a once,
\* before resuming, never executes it again, and resumes with exactly the
\* addresses a + 1 up to the end of the set, so that every address of the
\* interrupted set is evaluated exactly once.
C13_RestoreOffset ==
    /\ (ev.kind = "start" /\ ev.result = "Err"
            /\ request[1].wrap[1].handler # "exec_all") =>
          LET c == request[1].wrap[1]
              set == SetAt(stack, c.handler, c.restore_point)
          IN  /\ c.at_addr \in set.start .. (set.end - 1)
              /\ c.restore_point.offset = c.at_addr - set.start + 1
              /\ try_exec_without_attrs(InstrAt(program, c.at_addr),
                                        cur[1].local_name) = "Err"
              /\ evals[Len(evals)].addr = c.at_addr
    /\ BailoutServed =>
          LET before == StackBefore(NoAttrWithContent(cur[1]))
              set == SetAt(before, ev.handler, ev.restore_point)
          IN  /\ EvalsOfSet(evals, ev.handler, ev.restore_point)
                    = InterruptedAndResumed(set, ev.at_addr)
              /\ Cardinality({i \in DOMAIN evals :
                                evals[i].how = "complete"}) = 1

\* The first entry-point instruction bailed out, the request resumed at
\* offset 1 and the two remaining entry points were executed, one of them
\* reporting.
C13_Witness ==
    /\ BailoutServed
    /\ ev.handler = "entry_points"
    /\ ev.at_addr = 0
    /\ ev.restore_point.offset = 1
    /\ EvalsOfSet(evals, "entry_points", DefaultPtr)
          = <<<<0, "try">>, <<0, "complete">>, <<1, "exec">>, <<2, "exec">>>>
    /\ reports # <<>>

\* Where an evaluation happened: phase, ancestor, set index, address.
Place(x) ==
    [phase |-> x.phase, stack_offset |-> x.stack_offset,
     instr_set_idx |-> x.instr_set_idx, addr |-> x.addr]

\* Every address of the sets of a list from index i on (counting from 0),
\* each set from its start to its end.
RECURSIVE SetsInFull(_, _, _, _)
SetsInFull(phase, stack_offset, sets, i) ==
    IF i >= Len(sets) THEN <<>>
    ELSE [k \in 1..(sets[i + 1].end - sets[i + 1].start) |->
            [phase |-> phase, stack_offset |-> stack_offset,
             instr_set_idx |-> i, addr |-> sets[i + 1].start + k - 1]]
         \o SetsInFull(phase, stack_offset, sets, i + 1)

\* Every address of every descendant-jump set of the items of stk, from the
\* item at stack_offset outwards.
RECURSIVE AncestorsInFull(_, _)
AncestorsInFull(stk, stack_offset) ==
    IF stack_offset >= Len(stk) THEN <<>>
    ELSE SetsInFull("hereditary_jumps", stack_offset,
                    stk[Len(stk) - stack_offset].hereditary_jumps, 0)
         \o AncestorsInFull(stk, stack_offset + 1)

\* What follows the set a restore point of the given handler points into, on
\* stack stk: the later sets of its list and the later phases, in full.
FollowingInFull(stk, handler, ptr) ==
    IF handler = "entry_points"
    THEN (IF stk = <<>> THEN <<>>
          ELSE SetsInFull("jumps", 0, stk[Len(stk)].jumps, 0))
         \o AncestorsInFull(stk, 0)
    ELSE IF handler = "jumps"
    THEN SetsInFull("jumps", 0, stk[Len(stk)].jumps, ptr.instr_set_idx + 1)
         \o AncestorsInFull(stk, 0)
    ELSE SetsInFull("hereditary_jumps", ptr.stack_offset,
                    stk[Len(stk) - ptr.stack_offset].hereditary_jumps,
                    ptr.instr_set_idx + 1)
         \o AncestorsInFull(stk, ptr.stack_offset + 1)

\* The evaluations of a trace in sets after the one a restore point of the
\* given handler points into.
EvalsFollowing(trace, handler, ptr) ==
    LET here == [phase |-> handler, stack_offset |-> ptr.stack_offset,
                 instr_set_idx |-> ptr.instr_set_idx, addr |-> 0]
        later(x) == EvalBefore(here, [x EXCEPT !.addr = 0])
    IN  SelectSeq(trace, later)

\* C14: when the request of a bailout is served, every instruction set after
\* the interrupted one is executed in full from its start: after a bailout
\* in the entry points all child-jump sets of the innermost item and all
\* descendant-jump sets of the open items; after a bailout in a child-jump
\* set the remaining child-jump sets and all descendant-jump sets, also when
\* the bailout is on the last instruction of the last child-jump set; after
\* a bailout in a descendant-jump set the remaining sets of that ancestor
\* and those of the ancestors outside it.
C14_FollowingPhasesInFull ==
    BailoutServed =>
        LET before == StackBefore(NoAttrWithContent(cur[1]))
            following == EvalsFollowing(evals, ev.handler, ev.restore_point)
        IN  /\ [i \in DOMAIN following |-> Place(following[i])]
                  = FollowingInFull(before, ev.handler, ev.restore_point)
            /\ \A i \in DOMAIN following : following[i].how = "exec"

\* The last instruction of the last of two child-jump sets bailed out; the
\* served request had nothing to resume in that set and executed the two
\* descendant-jump sets of the parent.
C14_Witness ==
    /\ BailoutServed
    /\ ev.handler = "jumps"
    /\ Len(stack) = 2
    /\ Len(stack[1].jumps) = 2
    /\ ev.restore_point.instr_set_idx = 1
    /\ ev.at_addr = stack[1].jumps[2].end - 1
    /\ Len(stack[1].hereditary_jumps) = 2
    /\ Len(EvalsFollowing(evals, ev.handler, ev.restore_point)) = 3
    /\ evals[Len(evals)].phase = "hereditary_jumps"

\* The element cur has been pushed by the last event.
Pushed ==
    /\ ev.result = "Ok"
    /\ IF CurDirective = "PushIfNotSelfClosing" THEN ~cur[1].self_closing
       ELSE CurDirective = "Push"

\* Where the descendant-jump walks made for cur evaluated instructions (the
\* completion of a bailed-out instruction belongs to its bailout).
HereditaryPlaces ==
    LET walked(x) == x.phase = "hereditary_jumps" /\ x.how # "complete"
        sel == SelectSeq(evals, walked)
    IN  [i \in DOMAIN sel |-> Place(sel[i])]

IsPrefix(p, q) == Len(p) <= Len(q) /\ SubSeq(q, 1, Len(p)) = p

\* C15: the early exit of the ancestor walk changes nothing: for every start
\* tag on every reachable stack, the walk from the innermost item outwards
\* that stops after the first item whose flag is false evaluates the
\* descendant-jump sets of every item that has any, as a walk over the whole
\* stack does: all of them once the element is matched (without attributes,
\* with attributes, or by the two together after a bailout), and up to the
\* bailout when a request is returned.
C15_EarlyExitEquivalent ==
    (InContract /\ cur # None) =>
        LET full == AncestorsInFull(StackBefore(Pushed), 0)
        IN  IF ev.result = "Ok" THEN HereditaryPlaces = full
            ELSE IsPrefix(HereditaryPlaces, full)

\* The innermost open item has no descendant jumps and an outer one has: the
\* no-attribute walk passed the innermost item, reported from the outer
\* item's set and bailed out there, and the walk with attributes completed
\* the instruction with another report.
C15_Witness ==
    /\ BailoutServed
    /\ ev.handler = "hereditary_jumps"
    /\ ev.restore_point.stack_offset = 1
    /\ Len(stack) = 3
    /\ stack[2].hereditary_jumps = <<>>
    /\ stack[1].hereditary_jumps # <<>>
    /\ \E i, j \in DOMAIN evals :
          /\ evals[i].how = "try" /\ evals[i].stack_offset = 1
          /\ evals[i].reported # <<>>
          /\ evals[j].how = "complete" /\ evals[j].reported # <<>>

\* The descendant-jump walk of the last event stopped early: it broke off at
\* an ancestor (index from the bottom of the stack before) with ancestors
\* left outside it.
StoppedAt(before) == Len(before) - walk_stop[1]

StoppedEarly(before) ==
    /\ InContract
    /\ walk_stop # None
    /\ StoppedAt(before) > 1

\* C16 as stated: whenever the walk stops early at an ancestor, the
\* stopped-at ancestor and all ancestors outside it have empty
\* descendant-jump lists.
C16_AsStated ==
    LET before == StackBefore(Pushed)
    IN  StoppedEarly(before) =>
            \A i \in 1..StoppedAt(before) : before[i].hereditary_jumps = <<>>

\* C16 amended: whenever the walk stops early at an ancestor, all ancestors
\* outside the stopped-at ancestor have empty descendant-jump lists (the
\* stopped-at ancestor may have descendant jumps; the walk evaluates them
\* before it stops).
C16_OuterAncestorsJumpless ==
    LET before == StackBefore(Pushed)
    IN  StoppedEarly(before) =>
            \A i \in 1..(StoppedAt(before) - 1) :
                before[i].hereditary_jumps = <<>>

\* The walk stopped at the innermost of two open items, whose descendant
\* jumps it had evaluated with a report, and left out the outer item.
C16_Witness ==
    /\ StoppedEarly(StackBefore(Pushed))
    /\ Len(StackBefore(Pushed)) = 2
    /\ walk_stop = Some(0)
    /\ StackBefore(Pushed)[2].hereditary_jumps # <<>>
    /\ \E i \in DOMAIN evals :
          evals[i].phase = "hereditary_jumps" /\ evals[i].reported # <<>>

\* Where the child-jump phase made for cur evaluated instructions.
JumpPlaces ==
    LET child(x) == x.phase = "jumps" /\ x.how # "complete"
        sel == SelectSeq(evals, child)
    IN  [i \in DOMAIN sel |-> Place(sel[i])]

\* Every address of every child-jump set of the innermost item of stk.
TopJumpsInFull(stk) ==
    IF stk = <<>> THEN <<>>
    ELSE SetsInFull("jumps", 0, stk[Len(stk)].jumps, 0)

Addrs(range) == range.start .. (range.end - 1)

\* The addresses the program reaches through child-jump tables only: in no
\* entry point and in no descendant-jump table.
ChildOnlyAddrs ==
    {addr \in 0..(Len(program.instructions) - 1) :
        /\ addr \notin Addrs(program.entry_points)
        /\ \A k \in DOMAIN program.instructions :
              \A n \in DOMAIN program.instructions[k].branch.hereditary_jumps :
                  addr \notin Addrs(program.instructions[k].branch.hereditary_jumps[n])}

\* The addresses whose instruction carries payload p.
AddrsOf(p) ==
    {addr \in 0..(Len(program.instructions) - 1) :
        \E k \in DOMAIN InstrAt(program, addr).branch.matched_payload :
            InstrAt(program, addr).branch.matched_payload[k] = p}

\* The payloads of the program.
ProgramPayloads ==
    UNION {{program.instructions[k].branch.matched_payload[n] :
                n \in DOMAIN program.instructions[k].branch.matched_payload} :
           k \in DOMAIN program.instructions}

\* The payloads reachable through child jumps only (selectors `X > Y`).
ChildOnlyPayloads ==
    {p \in ProgramPayloads : AddrsOf(p) \subseteq ChildOnlyAddrs}

\* Item carries a child-jump set with an instruction for payload p that the
\* tag satisfies.
InstallsFor(item, p, tag) ==
    \E n \in DOMAIN item.jumps :
        \E addr \in Addrs(item.jumps[n]) \cap AddrsOf(p) :
            exec(InstrAt(program, addr), tag.local_name, tag.attrs)

\* C17: for every start tag the child-jump sets evaluated are exactly those
\* of the innermost open item (none on an empty stack), without attributes
\* and with them (up to the bailout when a request is returned), so that a
\* payload reachable through child jumps only is reported for an element if
\* and only if the element's parent item carries a child jump for it that
\* the element satisfies: never for a deeper descendant of the element that
\* installed the jump.
C17_ChildJumpsFromTopOnly ==
    (InContract /\ cur # None) =>
        LET before == StackBefore(Pushed)
        IN  /\ IF ev.result = "Ok"
                  \/ request[1].wrap[1].handler = "hereditary_jumps"
               THEN JumpPlaces = TopJumpsInFull(before)
               ELSE IsPrefix(JumpPlaces, TopJumpsInFull(before))
            /\ ev.result = "Ok" =>
                  \A p \in ChildOnlyPayloads :
                      (\E i \in DOMAIN reports : reports[i].payload = p)
                          <=> /\ before # <<>>
                              /\ InstallsFor(before[Len(before)], p, cur[1])

\* A grandchild of the element that installed a child jump satisfies the
\* jump's instruction, its parent being another pushed element without that
\* jump: the parent's child jumps were evaluated and the payload was not
\* reported.
C17_Witness ==
    /\ InContract
    /\ ev.result = "Ok"
    /\ Len(StackBefore(Pushed)) = 2
    /\ JumpPlaces # <<>>
    /\ \E p \in ChildOnlyPayloads :
          /\ InstallsFor(stack[1], p, cur[1])
          /\ ~InstallsFor(stack[2], p, cur[1])
          /\ \A i \in DOMAIN reports : reports[i].payload # p
    /\ reports # <<>>

\* The tags of the document <a x=1><b></b></a>.
TagA == [local_name |-> "a", ns |-> "Html", self_closing |-> FALSE,
         attrs |-> {"x"}]

TagB == [local_name |-> "b", ns |-> "Html", self_closing |-> FALSE,
         attrs |-> {}]

\* The names and reported payloads of the items of stk, outermost first.
NamedPayloads(stk) ==
    [i \in DOMAIN stk |-> <<stk[i].local_name, stk[i].matched_payload>>]

\* C18: the unmatch handler is called in LIFO order of the open elements: an
\* end tag hands over the payloads of the items it pops from the innermost
\* (pushed last) outwards, so those of an inner item before those of any
\* outer one, whether one end tag pops several items or each element is
\* closed by its own end tag.  With selectors a[x] -> 6 and a b -> 7 on
\* <a x=1><b></b></a>: the start of <a> returns a request without a report,
\* serving it reports {6, true} and pushes a, <b> reports {7, true} and is
\* pushed, </b> unmatches 7 and then </a> unmatches 6.
C18_UnmatchLifo ==
    [][/\ ev'.kind = "end" =>
            \A k, m \in DOMAIN unmatched' :
                k < m =>
                    /\ Len(stack) - k + 1 > Len(stack')
                    /\ Len(stack) - m + 1 > Len(stack')
                    /\ unmatched'[k] = stack[Len(stack) - k + 1].matched_payload
                    /\ unmatched'[m] = stack[Len(stack) - m + 1].matched_payload
       /\ (program = Program3 /\ stack = <<>>) =>
            /\ (ev'.kind = "start" /\ cur' = Some(TagA)) =>
                    /\ ev'.result = "Err"
                    /\ reports' = <<>>
                    /\ stack' = <<>>
            /\ (ev'.kind = "serve" /\ ev'.result = "Ok" /\ cur = Some(TagA)) =>
                    /\ reports' = <<MatchInfo(6, TRUE)>>
                    /\ NamedPayloads(stack') = << <<"a", {6}>> >>
       /\ (program = Program3 /\ NamedPayloads(stack) = << <<"a", {6}>> >>) =>
            /\ (ev'.kind = "start" /\ cur' = Some(TagB)) =>
                    /\ ev'.result = "Ok"
                    /\ reports' = <<MatchInfo(7, TRUE)>>
                    /\ NamedPayloads(stack') = << <<"a", {6}>>, <<"b", {7}>> >>
            /\ (ev'.kind = "end" /\ ev'.local_name = "a") =>
                    /\ unmatched' = << {6} >>
                    /\ stack' = <<>>
       /\ (/\ program = Program3
           /\ NamedPayloads(stack) = << <<"a", {6}>>, <<"b", {7}>> >>) =>
            /\ (ev'.kind = "end" /\ ev'.local_name = "b") =>
                    /\ unmatched' = << {7} >>
                    /\ NamedPayloads(stack') = << <<"a", {6}>> >>
            /\ (ev'.kind = "end" /\ ev'.local_name = "a") =>
                    /\ unmatched' = << {7}, {6} >>
                    /\ stack' = <<>>
      ]_vars

\* With a[x] -> 6 and a b -> 7, the end tag of <a> closed <b> with it: 7 was
\* unmatched before 6.
C18_Witness ==
    /\ program = Program3
    /\ ev.kind = "end"
    /\ ev.local_name = "a"
    /\ unmatched = << {7}, {6} >>
    /\ stack = <<>>

\* C19: a start tag changes the stack only by one push of the new element on
\* top: a start tag or a served request leaves every existing item as it was
\* and adds at most one item, the element's; a start tag that returns a
\* request leaves the stack exactly as it was, so that the element is pushed
\* only if and when its request is served; a start tag that pushes returns
\* no request, and only the first invocation of a request pushes, so that
\* each start tag adds at most one item.
C19_StartTagFrame ==
    [][/\ ev'.kind \in {"start", "serve"} =>
            /\ Len(stack') \in {Len(stack), Len(stack) + 1}
            /\ SubSeq(stack', 1, Len(stack)) = stack
            /\ Len(stack') = Len(stack) + 1 =>
                  stack'[Len(stack')].local_name = cur'[1].local_name
       /\ (ev'.kind = "start" /\ ev'.result = "Err") =>
            /\ stack' = stack
            /\ request' # None /\ request'[1].wrap # None
       /\ (ev'.kind = "start" /\ stack' # stack) => request' = None
       /\ (ev'.kind = "serve" /\ stack' # stack) =>
            /\ invocations = 0
            /\ request # None /\ request[1].wrap # None
            /\ request' = Some([wrap |-> None])
      ]_vars

\* An element bailed out after a report and its request was never served:
\* its own end tag arrived, found no item of its name on the stack of one
\* other element and popped nothing.
C19_Witness ==
    /\ ev.kind = "end"
    /\ RequestPending
    /\ request[1].wrap[1].handler # "exec_all"
    /\ ev.local_name = cur[1].local_name
    /\ reports # <<>>
    /\ Len(stack) = 1
    /\ stack[1].local_name # cur[1].local_name
    /\ unmatched = <<>>

\* Every address range of the program (entry points, child-jump and
\* descendant-jump tables) lies within the instruction array.
RangesInProgram ==
    LET in_array(range) ==
            /\ 0 <= range.start
            /\ range.start <= range.end
            /\ range.end <= Len(program.instructions)
    IN  /\ in_array(program.entry_points)
        /\ \A k \in DOMAIN program.instructions :
              LET branch == program.instructions[k].branch
              IN  /\ \A n \in DOMAIN branch.jumps : in_array(branch.jumps[n])
                  /\ \A n \in DOMAIN branch.hereditary_jumps :
                        in_array(branch.hereditary_jumps[n])

\* x (a phase, an ancestor, a set index and an address) denotes an existing
\* item of stk, an existing instruction set of that item and an address
\* inside that set and inside the instruction array.
ValidPlace(stk, x) ==
    /\ x.addr \in 0..(Len(program.instructions) - 1)
    /\ IF x.phase = "entry_points"
       THEN x.addr \in Addrs(program.entry_points)
       ELSE IF x.phase = "jumps"
       THEN /\ stk # <<>>
            /\ x.instr_set_idx < Len(stk[Len(stk)].jumps)
            /\ x.addr \in Addrs(stk[Len(stk)].jumps[x.instr_set_idx + 1])
       ELSE /\ x.stack_offset < Len(stk)
            /\ x.instr_set_idx
                  < Len(stk[Len(stk) - x.stack_offset].hereditary_jumps)
            /\ x.addr \in Addrs(stk[Len(stk) - x.stack_offset]
                                    .hereditary_jumps[x.instr_set_idx + 1])

\* C20: with every address range of the program inside the instruction
\* array and requests served on the stack they were issued on, every index
\* the VM uses is valid: a bailout's address lies in its instruction set,
\* its restore pointer denotes an existing stack item and an existing set of
\* that item, and its restore offset is at least 1 and at most the length of
\* the set; every instruction evaluated, before the bailout and by the
\* served request, lies in an existing set of an existing item; and serving
\* the request does not panic.
C20_IndicesValid ==
    RangesInProgram =>
        /\ (/\ ev.kind = "start"
            /\ RequestPending
            /\ request[1].wrap[1].handler # "exec_all") =>
              LET c == request[1].wrap[1]
                  at == [phase |-> c.handler,
                         stack_offset |-> c.restore_point.stack_offset,
                         instr_set_idx |-> c.restore_point.instr_set_idx,
                         addr |-> c.at_addr]
              IN  /\ ValidPlace(stack, at)
                  /\ c.restore_point.offset >= 1
                  /\ SetAt(stack, c.handler, c.restore_point).start
                        + c.restore_point.offset
                        <= SetAt(stack, c.handler, c.restore_point).end
        /\ (InContract /\ cur # None) =>
              \A i \in DOMAIN evals : ValidPlace(StackBefore(Pushed), evals[i])
        /\ (ev.kind = "serve" /\ ev.prompt) => ev.result = "Ok" /\ ~panicked

\* The last instruction of a descendant-jump set of the outer of two open
\* items bailed out: the restore offset is the length of the set, the
\* pointer denotes the outer item, and the served request completed the
\* instruction with a report.
C20_Witness ==
    /\ BailoutServed
    /\ ev.handler = "hereditary_jumps"
    /\ ev.restore_point.stack_offset = 1
    /\ Len(stack) = 3
    /\ ev.restore_point.instr_set_idx < Len(stack[1].hereditary_jumps)
    /\ ev.at_addr
          = stack[1].hereditary_jumps[ev.restore_point.instr_set_idx + 1].end - 1
    /\ ev.restore_point.offset
          = stack[1].hereditary_jumps[ev.restore_point.instr_set_idx + 1].end
            - stack[1].hereditary_jumps[ev.restore_point.instr_set_idx + 1].start
    /\ evals[Len(evals)].how = "complete"
    /\ evals[Len(evals)].reported # <<>>

====
